---- MODULE Spec2Model ----
(***************************************************************************)
(* Model of the watchmee companion server: the /analyze request handler    *)
(* (server/app/routes.py), the ContextManager with its sliding context     *)
(* window and feedback gate (server/app/services/context.py,               *)
(* server/app/models.py) and the Ollama gateway calls the handler awaits   *)
(* (server/app/services/ollama.py).                                        *)
(*                                                                         *)
(* The server is one asyncio event loop: a handler runs without            *)
(* interruption from one `await` that suspends to the next.  Each action   *)
(* below is one such uninterrupted stretch of analyze_activity.            *)
(***************************************************************************)
EXTENDS Integers, Sequences, FiniteSets, TLC

\* ------------------------------------------------------------------ bounds
MaxReq == 3          \* number of /analyze requests submitted in one run
MaxWindow == 1       \* largest configured context_window_size under requests
MaxCapacity == 3     \* window harness: largest context_window_size
MaxThreshold == 2    \* largest configured captures_before_feedback
MaxAppends == 4      \* window harness: number of add_entry calls in one run
MaxServerReq == 2    \* /analyze requests submitted next to the other endpoints
MaxAccessReq == 1    \* /analyze requests accepted next to refused calls
MaxBody == 2         \* store harness: longest task body of a generated todo line
MaxDigestSize == 6   \* digest harness: capacity of the window
MaxDigestAdds == 7   \* digest harness: number of add_entry calls in one run
MaxOrderWindow == 2  \* window capacity under which concurrent appends are ordered

Req == 1..MaxReq

Min(a, b) == IF a < b THEN a ELSE b

\* ------------------------------------------------------- values and inputs
\* Python's None
None == "None"

\* models.py UserStatus, restricted to the two values the capture client sends
\* (companion_client.py: "in_meeting" if the microphone is unmuted, else "active")
UserStatus == {"active", "in_meeting"}
IN_MEETING == "in_meeting"

WindowTitles == {"editor"}
ClassNames == {"kitty"}
MediaStatus == {"unknown"}

\* the parsed `metadata` form field plus whether a non-empty image is attached
ClientMetadata ==
    [window_title : WindowTitles, class_name : ClassNames,
     media_status : MediaStatus, user_status : UserStatus,
     has_image : BOOLEAN]

\* what the Ollama backend does with one POST /api/generate
Raised == [status |-> 0, response |-> ""]
BackendReplies ==
    { [status |-> 200, response |-> " Looks like code. "],
      [status |-> 200, response |-> " "],
      [status |-> 500, response |-> ""],
      Raised }

\* str.strip() on the response texts above
Strip(s) ==
    CASE s = " Looks like code. " -> "Looks like code."
      [] s = " " -> ""
      [] OTHER -> s

\* ollama.py analyze_image: stripped text on 200, None otherwise
analyze_image(reply) ==
    IF reply = Raised THEN None
    ELSE IF reply.status = 200 THEN Strip(reply.response)
    ELSE None

\* ollama.py generate_feedback: stripped text on 200, None when empty or failed
generate_feedback(reply) ==
    IF reply = Raised THEN None
    ELSE IF reply.status = 200
         THEN (IF Strip(reply.response) # "" THEN Strip(reply.response) ELSE None)
         ELSE None

\* `a or b` that never falls back
OrElse_First(a, b) == a

\* Python truthiness of an Optional[str]
Truthy(s) == s # None /\ s # ""

\* Python `a or b` on Optional[str]
OrElse(a, b) == IF Truthy(a) THEN a ELSE b

\* the Persona fields the server logic reads (models.py Persona)
Persona(name, template) == [name |-> name, prompt_template |-> template]

\* `None` where a Persona is expected
NoPersona == [name |-> None, prompt_template |-> None]

MeetingSentinel == "[Notification suppressed - user in meeting]"
FallbackFeedback == "Keep up the good work!"
ReadErrorSummary == "Could not analyze image"
\* routes.py 89: f"User is in: {window_title}"
PlaceholderSummary(title) ==
    CASE title = "editor" -> "User is in: editor"
      [] OTHER -> "User is in: "

\* ------------------------------------------------------------------- state
VARIABLES
    entries,                   \* context_mgr.context_window.entries
    max_size,                  \* context_mgr.context_window.max_size
    capture_count,             \* context_mgr.capture_count
    captures_before_feedback,  \* context_mgr.captures_before_feedback
    now,                       \* datetime.utcnow(), in ticks; one tick per reading
    pc,                        \* per request: where analyze_activity stands
    client_metadata,           \* per request: parsed metadata
    vision_summary,            \* per request: local vision_summary
    should_generate,           \* per request: local should_generate
    branch,                    \* per request: which arm of routes.py 109-129 ran
    response,                  \* per request: the FeedbackResponse returned
    persona_prompt,            \* per request: local persona_prompt sent to reasoning
    calls,                     \* per request in flight: inference calls issued so far
    appended,                  \* window harness: every entry add_entry was given
    personas,                  \* context_mgr.personas
    active_persona,            \* context_mgr.active_persona
    todo_items,                \* context_mgr.todo_items
    vision_model,              \* ollama.vision_model
    reasoning_model,           \* ollama.reasoning_model
    rejected,                  \* the last call refused before its handler body ran
    observed                   \* store harness: the last call made and what it returned

\* the state /analyze reads and writes
analyzeVars == <<entries, max_size, capture_count, captures_before_feedback, now,
                 pc, client_metadata, vision_summary, should_generate, branch,
                 response, persona_prompt, calls>>

\* the state only the other endpoints write
adminVars == <<personas, active_persona, todo_items, vision_model, reasoning_model>>

\* everything the server keeps between calls
serverVars == <<analyzeVars, appended, adminVars>>

vars == <<serverVars, rejected, observed>>

NoMetadata == [window_title |-> "", class_name |-> "", media_status |-> "",
               user_status |-> "", has_image |-> FALSE]
NoCalls == [vision |-> 0, reasoning |-> 0]
NoResponse == [feedback |-> None, persona_used |-> None,
               suppress_notification |-> FALSE, user_status |-> ""]

\* the store harness has made no call yet
NoCall == [call |-> None]

\* no call has been refused yet
NoRejection == [endpoint |-> None, stage |-> None, status |-> 0]

\* ------------------------------------------------- ContextWindow (models.py)
\* add_entry that refuses the new entry when the window is full
add_entry_DropNewest(es, entry, cap) ==
    IF Len(es) >= cap THEN es ELSE Append(es, entry)

\* add_entry that puts the new entry in front and drops from the back
add_entry_Front(es, entry, cap) ==
    LET grown == <<entry>> \o es
    IN  IF Len(grown) > cap THEN SubSeq(grown, 1, cap) ELSE grown

\* add_entry that overwrites the newest entry when it is for the same window
add_entry_Merge(es, entry, cap) ==
    IF es # <<>> /\ es[Len(es)].window_title = entry.window_title
    THEN [es EXCEPT ![Len(es)] = entry]
    ELSE IF Len(es) + 1 > cap THEN Tail(Append(es, entry))
    ELSE Append(es, entry)

\* ContextWindow.add_entry: append, then drop the oldest if over max_size
add_entry(es, entry, cap) ==
    LET grown == Append(es, entry)
    IN  IF Len(grown) > cap THEN Tail(grown) ELSE grown

\* --------------------------------------------- ContextManager (context.py)
\* the ContextEntry add_context_entry builds
ContextEntry(meta, summary, t) ==
    [timestamp |-> t, window_title |-> meta.window_title,
     class_name |-> meta.class_name, media_status |-> meta.media_status,
     user_status |-> meta.user_status, vision_summary |-> summary]

\* should_generate_feedback with an exclusive comparison
should_generate_feedback_Strict(count, threshold) == count > threshold

\* ContextManager.should_generate_feedback
should_generate_feedback(count, threshold) == count >= threshold

\* add_context_entry's increment left out
Incremented_Lost(count) == count

\* the counter after add_context_entry's `self.capture_count += 1`
Incremented(count) == count + 1

\* add_context_entry that counts only observations outside meetings
add_context_entry_SkipMeeting(meta, summary) ==
    /\ now' = now + 1
    /\ entries' = add_entry(entries, ContextEntry(meta, summary, now'), max_size)
    /\ capture_count' = IF meta.user_status = IN_MEETING
                         THEN capture_count
                         ELSE Incremented(capture_count)

\* add_context_entry whose counter wraps to 0 by itself past the threshold
add_context_entry_SelfReset(meta, summary) ==
    /\ now' = now + 1
    /\ entries' = add_entry(entries, ContextEntry(meta, summary, now'), max_size)
    /\ capture_count' = IF Incremented(capture_count) > captures_before_feedback
                         THEN 0
                         ELSE Incremented(capture_count)

\* ContextManager.add_context_entry: timestamp the entry, append, count it
add_context_entry(meta, summary) ==
    /\ now' = now + 1
    /\ entries' = add_entry(entries, ContextEntry(meta, summary, now'), max_size)
    /\ capture_count' = Incremented(capture_count)

\* reset_capture_count that leaves the counter as it is
reset_capture_count_Forgotten == capture_count' = capture_count

\* ContextManager.reset_capture_count
reset_capture_count == capture_count' = 0

\* ------------------------------------------------ analyze_activity (routes.py)
\* routes.py 68: suppress_notification = (user_status == IN_MEETING)
SuppressFor(meta) == meta.user_status = IN_MEETING

\* the arms of routes.py 109-116 with the gate tested before the meeting flag
BranchFor_GateFirst(suppress, gate) ==
    IF gate THEN "reasoning"
    ELSE IF suppress THEN "suppressed"
    ELSE "accumulating"

\* routes.py 109-116: which arm the handler takes after reading the gate
BranchFor(suppress, gate) ==
    IF suppress THEN "suppressed"
    ELSE IF ~gate THEN "accumulating"
    ELSE "reasoning"

\* FeedbackResponse whose suppression flag forgets the meeting flag
FeedbackResponse_GateOnly(feedback, meta, suppress, gate) ==
    [feedback |-> feedback,
     persona_used |-> IF active_persona # NoPersona THEN active_persona.name
                      ELSE "Default",
     suppress_notification |-> ~gate,
     user_status |-> meta.user_status]

\* FeedbackResponse whose flag follows the meeting test alone
FeedbackResponse_MeetingOnly(feedback, meta, suppress, gate) ==
    [feedback |-> feedback,
     persona_used |-> IF active_persona # NoPersona THEN active_persona.name
                      ELSE "Default",
     suppress_notification |-> suppress,
     user_status |-> meta.user_status]

\* routes.py 131-139: the FeedbackResponse
FeedbackResponse(feedback, meta, suppress, gate) ==
    [feedback |-> feedback,
     persona_used |-> IF active_persona # NoPersona THEN active_persona.name
                      ELSE "Default",
     suppress_notification |-> (suppress \/ ~gate),
     user_status |-> meta.user_status]

\* ContextManager.get_persona_prompt
get_persona_prompt ==
    IF active_persona # NoPersona THEN active_persona.prompt_template
    ELSE "You are a helpful assistant."

\* routes.py 91-139 up to the next suspension: append, read the gate, then
\* either respond (meeting / accumulating) or start the reasoning call
AppendAndGate(r, meta, summary) ==
    /\ add_context_entry(meta, summary)
    /\ LET gate == should_generate_feedback(capture_count', captures_before_feedback)
           suppress == SuppressFor(meta)
           arm == BranchFor(suppress, gate)
       IN  /\ should_generate' = [should_generate EXCEPT ![r] = gate]
           /\ branch' = [branch EXCEPT ![r] = arm]
           /\ IF arm = "reasoning"
              THEN /\ pc' = [pc EXCEPT ![r] = "reasoning_pending"]
                   /\ client_metadata' = [client_metadata EXCEPT ![r] = meta]
                   /\ vision_summary' = [vision_summary EXCEPT ![r] = summary]
                   /\ persona_prompt' = [persona_prompt EXCEPT ![r] =
                                             get_persona_prompt]
                   /\ calls' = [calls EXCEPT ![r].reasoning = @ + 1]
                   /\ UNCHANGED response
              ELSE /\ pc' = [pc EXCEPT ![r] = "responded"]
                   /\ client_metadata' = [client_metadata EXCEPT ![r] = NoMetadata]
                   /\ vision_summary' = [vision_summary EXCEPT ![r] = None]
                   /\ UNCHANGED persona_prompt
                   /\ calls' = [calls EXCEPT ![r] = NoCalls]
                   /\ response' = [response EXCEPT ![r] =
                          FeedbackResponse(
                              IF arm = "suppressed" THEN MeetingSentinel ELSE "",
                              meta, suppress, gate)]

\* arrival order under a lock held from receipt to response: the next request
\* is taken only when every earlier one has responded
NextToReceive_Serialized(r) ==
    pc[r] = "idle" /\ \A q \in Req : q < r => pc[q] = "responded"

\* requests are numbered in the order the server receives them
NextToReceive(r) == pc[r] = "idle" /\ \A q \in Req : q < r => pc[q] # "idle"

\* a handler that appends the observation before it awaits the vision call
ReceiveWithImage_AppendFirst(r) ==
    /\ NextToReceive(r)
    /\ \E meta \in ClientMetadata :
          /\ meta.has_image
          /\ client_metadata' = [client_metadata EXCEPT ![r] = meta]
          /\ add_context_entry(meta, None)
    /\ pc' = [pc EXCEPT ![r] = "vision_pending"]
    /\ calls' = [calls EXCEPT ![r].vision = @ + 1]
    /\ UNCHANGED <<max_size, captures_before_feedback, vision_summary,
                   should_generate, branch, response, persona_prompt, appended,
                   adminVars, rejected, observed>>

\* routes.py 55-81 for a request with an image: parse, then await the vision call
ReceiveWithImage(r) ==
    /\ NextToReceive(r)
    /\ \E meta \in ClientMetadata :
          /\ meta.has_image
          /\ client_metadata' = [client_metadata EXCEPT ![r] = meta]
    /\ pc' = [pc EXCEPT ![r] = "vision_pending"]
    /\ calls' = [calls EXCEPT ![r].vision = @ + 1]
    /\ UNCHANGED <<entries, max_size, capture_count, captures_before_feedback,
                   now, vision_summary, should_generate, branch, response,
                   persona_prompt, appended, adminVars, rejected, observed>>

\* routes.py 55-129 for a request without an image: no suspension before the gate
ReceiveNoImage(r) ==
    /\ NextToReceive(r)
    /\ \E meta \in ClientMetadata :
          /\ ~meta.has_image
          /\ AppendAndGate(r, meta, PlaceholderSummary(meta.window_title))
    /\ UNCHANGED <<max_size, captures_before_feedback, appended, adminVars,
                   rejected, observed>>

\* a handler that issues the vision call a second time when the first failed
VisionReturn_Retry(r) ==
    /\ pc[r] = "vision_pending"
    /\ \E reply \in BackendReplies :
          IF analyze_image(reply) = None /\ calls[r].vision < 2
          THEN /\ calls' = [calls EXCEPT ![r].vision = @ + 1]
               /\ UNCHANGED <<entries, capture_count, now, pc, client_metadata,
                              vision_summary, should_generate, branch, response,
                              persona_prompt>>
          ELSE AppendAndGate(r, client_metadata[r], analyze_image(reply))
    /\ UNCHANGED <<max_size, captures_before_feedback, appended, adminVars,
                   rejected, observed>>

\* routes.py 72-129: image.read / analyze_image returned; append and gate
VisionReturn(r) ==
    /\ pc[r] = "vision_pending"
    /\ \E summary \in {analyze_image(reply) : reply \in BackendReplies}
                      \cup {ReadErrorSummary} :
          AppendAndGate(r, client_metadata[r], summary)
    /\ UNCHANGED <<max_size, captures_before_feedback, appended, adminVars,
                   rejected, observed>>

\* routes.py 118-139: generate_feedback returned; fall back, reset, respond
ReasoningReturn(r) ==
    /\ pc[r] = "reasoning_pending"
    /\ \E reply \in BackendReplies :
          response' = [response EXCEPT ![r] =
              FeedbackResponse(
                  OrElse(generate_feedback(reply), FallbackFeedback),
                  client_metadata[r], SuppressFor(client_metadata[r]),
                  should_generate[r])]
    /\ reset_capture_count
    /\ pc' = [pc EXCEPT ![r] = "responded"]
    /\ client_metadata' = [client_metadata EXCEPT ![r] = NoMetadata]
    /\ vision_summary' = [vision_summary EXCEPT ![r] = None]
    /\ persona_prompt' = [persona_prompt EXCEPT ![r] = None]
    /\ calls' = [calls EXCEPT ![r] = NoCalls]
    /\ UNCHANGED <<entries, max_size, captures_before_feedback, now,
                   should_generate, branch, appended, adminVars, rejected,
                   observed>>

\* request r has passed routes.py 92 (its observation is in the window)
Appended(r) == pc[r] \in {"reasoning_pending", "responded"}
NumAppended == Cardinality({r \in Req : Appended(r)})

\* requests that entered the reasoning arm (called generate_feedback)
NumReasoning == Cardinality({r \in Req : branch[r] = "reasoning"})

\* the user status request r was submitted with
StatusOf(r) ==
    IF pc[r] = "responded" THEN response[r].user_status
    ELSE client_metadata[r].user_status

\* no handler is suspended in an inference call
NoneInFlight == \A q \in Req : pc[q] \in {"idle", "responded"}

\* ------------------------------------------------ persona store (context.py)
\* context.py _set_default_persona: the built-in persona
DefaultPersona ==
    Persona("Assistant", "You are a helpful, friendly productivity assistant.")

\* a configuration file that is absent, or present but not parseable
MissingFile == [kind |-> "missing"]
Unparseable == [kind |-> "unparseable"]

\* one element of the "personas" list of personas.json; Persona(**p) raises
\* when a required field is missing
PersonaDict(name, template, valid) ==
    [name |-> name, prompt_template |-> template, valid |-> valid]
PersonasFile(dicts, default) ==
    [kind |-> "file", personas |-> dicts, default |-> default]

\* contents of personas.json
PersonaSources ==
    { MissingFile, Unparseable,
      PersonasFile(<<>>, ""),
      PersonasFile(<<PersonaDict("Coach", "Be strict.", TRUE),
                     PersonaDict("Zen", "", FALSE)>>, "Coach"),
      PersonasFile(<<PersonaDict("Coach", "Be strict.", TRUE),
                     PersonaDict("Zen", "Be calm.", TRUE)>>, "Zen"),
      PersonasFile(<<PersonaDict("Coach", "Be strict.", TRUE),
                     PersonaDict("Zen", "Be calm.", TRUE)>>, "Nobody") }

\* the personas.json the server is started with in the request specifications
DeployedPersonas ==
    PersonasFile(<<PersonaDict("Coach", "Be strict.", TRUE),
                   PersonaDict("Zen", "Be calm.", TRUE)>>, "Zen")

\* next((p for p in ps if p.name == name), otherwise)
FirstNamed(ps, name, otherwise) ==
    IF \E i \in 1..Len(ps) : ps[i].name = name
    THEN ps[CHOOSE i \in 1..Len(ps) :
                /\ ps[i].name = name
                /\ \A j \in 1..(i - 1) : ps[j].name # name]
    ELSE otherwise

\* load_personas that keeps whatever the file lists, also when it lists nothing
load_personas_NoFallback(src) ==
    IF src.kind # "file" \/ \E i \in 1..Len(src.personas) : ~src.personas[i].valid
    THEN [personas |-> <<DefaultPersona>>, active_persona |-> DefaultPersona]
    ELSE LET loaded == [i \in 1..Len(src.personas) |->
                           Persona(src.personas[i].name,
                                   src.personas[i].prompt_template)]
         IN  [personas |-> loaded,
              active_persona |->
                  FirstNamed(loaded, src.default,
                             IF Len(loaded) > 0 THEN loaded[1] ELSE NoPersona)]

\* ContextManager.load_personas: [personas, active_persona] after the call
load_personas(src) ==
    LET builtin == [personas |-> <<DefaultPersona>>, active_persona |-> DefaultPersona]
    IN  IF src.kind # "file" THEN builtin
        ELSE IF \E i \in 1..Len(src.personas) : ~src.personas[i].valid
        THEN builtin
        ELSE LET loaded == [i \in 1..Len(src.personas) |->
                               Persona(src.personas[i].name,
                                       src.personas[i].prompt_template)]
                 active == FirstNamed(loaded, src.default,
                               IF Len(loaded) > 0 THEN loaded[1] ELSE NoPersona)
             IN  IF active = NoPersona THEN builtin
                 ELSE [personas |-> loaded, active_persona |-> active]

\* set_active_persona that clears the active persona on an unknown name
set_active_persona_ClearsOnMiss(name) == FirstNamed(personas, name, NoPersona)

\* set_active_persona that makes up a persona for a name it does not know
set_active_persona_MakesUp(name) ==
    FirstNamed(personas, name, Persona(name, ""))

\* ContextManager.set_active_persona: the active persona after the call
set_active_persona(name) ==
    LET persona == FirstNamed(personas, name, NoPersona)
    IN  IF persona # NoPersona THEN persona ELSE active_persona

\* names a client may ask to activate
ActivationNames == {"Coach", "Zen", "Nobody"}

\* --------------------------------------------------- todo store (context.py)
\* a line of todo.txt is a sequence of characters
RECURSIVE LStrip(_)
LStrip(line) ==
    IF Len(line) > 0 /\ line[1] = " " THEN LStrip(Tail(line)) ELSE line

RECURSIVE RStrip(_)
RStrip(line) ==
    IF Len(line) > 0 /\ line[Len(line)] = " "
    THEN RStrip(SubSeq(line, 1, Len(line) - 1))
    ELSE line

\* str.strip() on a line
StripLine(line) == RStrip(LStrip(line))

\* line[n:]
From(line, n) == SubSeq(line, n + 1, Len(line))

\* context.py 95-113: one non-empty stripped line to a TodoItem
ParseTodoLine(stripped) ==
    LET completed == Len(stripped) >= 2 /\ stripped[1] = "x" /\ stripped[2] = " "
        rest == IF completed THEN From(stripped, 2) ELSE stripped
        prio == Len(rest) > 2 /\ rest[1] = "(" /\ rest[3] = ")"
    IN  [text |-> IF prio THEN StripLine(From(rest, 4)) ELSE rest,
         completed |-> completed,
         priority |-> IF prio THEN rest[2] ELSE None]

\* ContextManager.load_todos on the lines of the file: todo_items after the call
RECURSIVE ParseTodoLines(_)
ParseTodoLines(lines) ==
    IF lines = <<>> THEN <<>>
    ELSE LET stripped == StripLine(Head(lines))
         IN  IF stripped = <<>> THEN ParseTodoLines(Tail(lines))
             ELSE <<ParseTodoLine(stripped)>> \o ParseTodoLines(Tail(lines))

load_todos(src) ==
    IF src.kind # "file" THEN <<>> ELSE ParseTodoLines(src.lines)

\* todo.txt with the given lines
TodoFile(lines) == [kind |-> "file", lines |-> lines]

\* the todo.txt the server is started with in the request specifications
DeployedTodos ==
    TodoFile(<< <<"(", "A", ")", " ", "m">>, <<"x", " ", "d">>, <<" ">>, <<"p">> >>)

\* contents of todo.txt
TodoSources == { MissingFile, DeployedTodos }

\* "\n".join(lines), the text as a sequence of characters
RECURSIVE JoinLines(_)
JoinLines(lines) ==
    IF lines = <<>> THEN <<>>
    ELSE IF Len(lines) = 1 THEN lines[1]
    ELSE lines[1] \o <<"\n">> \o JoinLines(Tail(lines))

\* context.py 126-131: the rendered lines of the items from position i on
RECURSIVE TodoTextLines(_, _)
TodoTextLines(items, i) ==
    IF i > Len(items) THEN <<>>
    ELSE IF items[i].completed THEN TodoTextLines(items, i + 1)
    ELSE LET prefix == IF items[i].priority # None
                       THEN <<"(", items[i].priority, ")", " ">>
                       ELSE <<>>
         IN  << <<"-", " ">> \o prefix \o items[i].text >>
                 \o TodoTextLines(items, i + 1)

\* get_todos_text that renders the completed items too
get_todos_text_WithDone(items) ==
    IF items = <<>> THEN <<"No todos defined.">>
    ELSE JoinLines([i \in 1..Len(items) |-> <<"-", " ">> \o items[i].text])

\* ContextManager.get_todos_text; a sentinel is a text of one symbol
get_todos_text(items) ==
    IF items = <<>> THEN <<"No todos defined.">>
    ELSE IF TodoTextLines(items, 1) = <<>> THEN <<"All todos completed!">>
    ELSE JoinLines(TodoTextLines(items, 1))

\* todo.txt files of several lines, an empty one, and one that cannot be read
TodoFiles ==
    { MissingFile, Unparseable, DeployedTodos, TodoFile(<< <<>> >>),
      TodoFile(<< <<"x", " ", "d">>, <<"x", " ", "(", "B", ")", " ", "e">> >>),
      TodoFile(<< <<"p">>, <<"x", " ", "d">>, <<"(", "A", ")", " ", "m">>,
                  <<"q">> >>) }

\* ------------------------------------------------ model selection (ollama.py)
\* a model id is its ':'-separated components; <<>> is None
NoModel == <<>>
ModelBase(id) == id[1]
ModelTag(id) == IF Len(id) > 1 THEN id[2] ELSE None

\* _model_exists that compares base names only
model_exists_BaseOnly(model, available) ==
    \E i \in 1..Len(available) : ModelBase(available[i]) = ModelBase(model)

\* OllamaService._model_exists
model_exists(model, available) ==
    \/ \E i \in 1..Len(available) : available[i] = model
    \/ \E i \in 1..Len(available) :
          /\ ModelBase(available[i]) = ModelBase(model)
          /\ \/ ModelTag(model) = None
             \/ ModelTag(available[i]) = None
             \/ ModelTag(model) = ModelTag(available[i])

\* reload_models seen by a reader scheduled between its two assignments
reload_models_Torn(vision, reasoning, available) ==
    IF vision # NoModel /\ ~model_exists(vision, available)
    THEN [ok |-> FALSE, vision_model |-> vision_model,
          reasoning_model |-> reasoning_model]
    ELSE IF reasoning # NoModel /\ ~model_exists(reasoning, available)
    THEN [ok |-> FALSE, vision_model |-> vision_model,
          reasoning_model |-> reasoning_model]
    ELSE [ok |-> TRUE,
          vision_model |-> IF vision # NoModel THEN vision ELSE vision_model,
          reasoning_model |-> reasoning_model]

\* reload_models that switches each model as soon as it has validated it
reload_models_Eager(vision, reasoning, available) ==
    LET vision_ok == vision = NoModel \/ model_exists(vision, available)
        reasoning_ok == reasoning = NoModel \/ model_exists(reasoning, available)
    IN  [ok |-> vision_ok /\ reasoning_ok,
         vision_model |-> IF vision # NoModel /\ vision_ok THEN vision
                          ELSE vision_model,
         reasoning_model |-> IF reasoning # NoModel /\ reasoning_ok THEN reasoning
                             ELSE reasoning_model]

\* OllamaService.reload_models on the list list_models returned:
\* [ok, vision_model, reasoning_model] after the call
reload_models(vision, reasoning, available) ==
    IF vision # NoModel /\ ~model_exists(vision, available)
    THEN [ok |-> FALSE, vision_model |-> vision_model,
          reasoning_model |-> reasoning_model]
    ELSE IF reasoning # NoModel /\ ~model_exists(reasoning, available)
    THEN [ok |-> FALSE, vision_model |-> vision_model,
          reasoning_model |-> reasoning_model]
    ELSE [ok |-> TRUE,
          vision_model |-> IF vision # NoModel THEN vision ELSE vision_model,
          reasoning_model |-> IF reasoning # NoModel THEN reasoning
                              ELSE reasoning_model]

\* what list_models returns: the installed ids, or [] on any failure
InstalledLists ==
    { <<>>, << <<"moondream", "latest">>, <<"llama3", "8b">> >> }

\* model-profiles.json: absent, or profiles by name
ProfileSources ==
    { MissingFile,
      [kind |-> "file",
       profiles |-> [fast |-> [vision_model |-> <<"moondream">>,
                               reasoning_model |-> <<"llama3", "8b">>]]] }

\* bodies of POST /models/switch (models.py SwitchModelRequest)
SwitchRequests ==
    { [profile |-> None, vision_model |-> NoModel, reasoning_model |-> NoModel],
      [profile |-> "fast", vision_model |-> NoModel, reasoning_model |-> NoModel],
      [profile |-> "slow", vision_model |-> NoModel, reasoning_model |-> NoModel],
      [profile |-> None, vision_model |-> <<"moondream">>,
       reasoning_model |-> NoModel],
      [profile |-> None, vision_model |-> NoModel,
       reasoning_model |-> <<"llama3", "70b">>] }

\* switch_models that treats a profile name it cannot resolve as no profile
switch_models_ProfileOptional(request, profiles, available) ==
    LET known == /\ request.profile # None
                 /\ profiles.kind = "file"
                 /\ request.profile \in DOMAIN profiles.profiles
        new_vision == IF known
                      THEN profiles.profiles[request.profile].vision_model
                      ELSE request.vision_model
        new_reasoning == IF known
                         THEN profiles.profiles[request.profile].reasoning_model
                         ELSE request.reasoning_model
        done == reload_models(new_vision, new_reasoning, available)
    IN  IF /\ request.profile = None
           /\ request.vision_model = NoModel
           /\ request.reasoning_model = NoModel
        THEN [status |-> 400, success |-> FALSE, reloaded |-> FALSE,
              vision_model |-> vision_model,
              reasoning_model |-> reasoning_model]
        ELSE [status |-> 200, success |-> done.ok, reloaded |-> TRUE,
              vision_model |-> done.vision_model,
              reasoning_model |-> done.reasoning_model]

\* routes.py switch_models: the reply (status, success), whether reload_models
\* was called, and the model selection after the call
switch_models(request, profiles, available) ==
    LET refused(status) == [status |-> status, success |-> FALSE,
                            reloaded |-> FALSE, vision_model |-> vision_model,
                            reasoning_model |-> reasoning_model]
    IN  IF /\ request.profile = None
           /\ request.vision_model = NoModel
           /\ request.reasoning_model = NoModel
        THEN refused(400)
        ELSE IF request.profile # None /\ profiles.kind # "file" THEN refused(404)
        ELSE IF /\ request.profile # None
                /\ request.profile \notin DOMAIN profiles.profiles
        THEN refused(404)
        ELSE LET new_vision == IF request.profile # None
                               THEN profiles.profiles[request.profile].vision_model
                               ELSE request.vision_model
                 new_reasoning == IF request.profile # None
                                  THEN profiles.profiles[request.profile].reasoning_model
                                  ELSE request.reasoning_model
                 done == reload_models(new_vision, new_reasoning, available)
             IN  [status |-> 200, success |-> done.ok, reloaded |-> TRUE,
                  vision_model |-> done.vision_model,
                  reasoning_model |-> done.reasoning_model]

\* ------------------------------------------------ other endpoints (routes.py)
\* activation that also starts a fresh accumulation period
ActivatePersona_FreshStart ==
    /\ \E name \in ActivationNames : active_persona' = set_active_persona(name)
    /\ capture_count' = 0
    /\ UNCHANGED <<entries, max_size, captures_before_feedback, now, pc,
                   client_metadata, vision_summary, should_generate, branch,
                   response, persona_prompt, calls, appended, personas,
                   todo_items, vision_model, reasoning_model, rejected, observed>>

\* POST /personas/{name}/activate
ActivatePersona ==
    /\ \E name \in ActivationNames : active_persona' = set_active_persona(name)
    /\ UNCHANGED <<analyzeVars, appended, personas, todo_items, vision_model,
                   reasoning_model,
                   rejected, observed>>

\* POST /todos/reload
ReloadTodos ==
    /\ \E src \in TodoSources : todo_items' = load_todos(src)
    /\ UNCHANGED <<analyzeVars, appended, personas, active_persona, vision_model,
                   reasoning_model,
                   rejected, observed>>

\* POST /models/switch
SwitchModels ==
    /\ \E request \in SwitchRequests, available \in InstalledLists :
          \E profiles \in IF request.profile # None THEN ProfileSources
                           ELSE {MissingFile} :
              LET done == switch_models(request, profiles, available)
              IN  /\ vision_model' = done.vision_model
                  /\ reasoning_model' = done.reasoning_model
    /\ UNCHANGED <<analyzeVars, appended, personas, active_persona, todo_items,
                   rejected, observed>>

\* GET /health
HealthCheck == UNCHANGED vars

\* GET /context
GetCurrentContext == UNCHANGED vars

\* GET /personas
ListPersonas == UNCHANGED vars

\* GET /models
GetModels == UNCHANGED vars

\* POST /models/pull/{model_name}
PullModel == UNCHANGED vars

\* ------------------------------------------------- API key (security.py)
\* a header value is the sequence of its code points; <<>> stands for a header
\* that is absent (None) or empty, both falsy at security.py 29
ConfiguredKey == <<115, 107>>
HeaderValues == { <<>>, ConfiguredKey, <<115, 120>>, <<115, 233>> }

\* what secrets.compare_digest accepts for str arguments
IsAscii(text) == \A i \in 1..Len(text) : text[i] < 128

\* security.py verify_api_key: 200 stands for returning the key; compare_digest
\* raises TypeError on a non-ASCII str, which the framework answers with 500
verify_api_key(api_key) ==
    IF api_key = <<>> THEN 401
    ELSE IF ~IsAscii(api_key) \/ ~IsAscii(ConfiguredKey) THEN 500
    ELSE IF api_key = ConfiguredKey THEN 200
    ELSE 401

\* every route declared with Depends(verify_api_key)
ProtectedEndpoints ==
    {"analyze", "context", "personas", "activate", "todos", "models", "switch",
     "pull"}

\* a call whose API key dependency raises: the handler body never runs
Unauthorized(endpoint) ==
    /\ \E api_key \in HeaderValues :
          /\ verify_api_key(api_key) # 200
          /\ rejected' = [endpoint |-> endpoint, stage |-> "verify_api_key",
                           status |-> verify_api_key(api_key)]
    /\ UNCHANGED <<serverVars, observed>>

\* ------------------------------------------- metadata parsing (routes.py 55-61)
\* the `metadata` form field: is it JSON, and does the decoded value validate
\* as ClientMetadata (an object with window_title, class_name, valid enums)
MetadataForms == [is_json : BOOLEAN, validates : BOOLEAN]

\* json.loads(metadata) and ClientMetadata(**meta_dict) both succeed
Parses(form) ==
    form.is_json /\ form.validates

\* /analyze that validates the metadata only after recording the capture
AnalyzeMalformed_ParsedLate ==
    /\ \E form \in MetadataForms :
          /\ ~Parses(form)
          /\ rejected' = [endpoint |-> "analyze", stage |-> "metadata",
                           status |-> 400]
    /\ add_context_entry(NoMetadata, None)
    /\ UNCHANGED <<max_size, captures_before_feedback, pc, client_metadata,
                   vision_summary, should_generate, branch, response,
                   persona_prompt, calls, appended, adminVars, observed>>

\* /analyze with a valid key and metadata that does not parse: HTTP 400
AnalyzeMalformed ==
    /\ \E form \in MetadataForms :
          /\ ~Parses(form)
          /\ rejected' = [endpoint |-> "analyze", stage |-> "metadata",
                           status |-> 400]
    /\ UNCHANGED <<serverVars, observed>>

\* ------------------------------------------------------------ store harness
\* ContextManager.set_active_persona: the value it returns
set_active_persona_returns(name) ==
    FirstNamed(personas, name, NoPersona) # NoPersona

\* sequences over `chars` of length at most n
RECURSIVE UpTo(_, _)
UpTo(chars, n) ==
    IF n = 0 THEN {<<>>}
    ELSE UpTo(chars, n - 1) \cup
         {Append(body, c) : body \in UpTo(chars, n - 1), c \in chars}

\* lines of todo.txt: something in the place of the completion mark, something
\* in the place of the priority, and a task body
CompletionMarks == { <<>>, <<"x", " ">>, <<"x">>, <<"X", " ">> }
PriorityMarks ==
    { <<>>, <<"(", "A", ")", " ">>, <<"(", "a", ")", " ">>, <<"(", "A", ")">>,
      <<"(", "A", "B", ")", " ">>, <<"(", "1", ")", " ">> }
TodoLines ==
    { c \o p \o b : c \in CompletionMarks, p \in PriorityMarks,
                    b \in UpTo({"t", " "}, MaxBody) }

\* ContextManager.load_personas called on any personas.json
StoreLoadPersonas ==
    /\ \E src \in PersonaSources :
          /\ personas' = load_personas(src).personas
          /\ active_persona' = load_personas(src).active_persona
          /\ observed' = [call |-> "load_personas", source |-> src]
    /\ UNCHANGED <<analyzeVars, appended, todo_items, vision_model,
                   reasoning_model, rejected>>

\* ContextManager.set_active_persona called with any name
StoreActivate ==
    /\ \E name \in ActivationNames :
          /\ active_persona' = set_active_persona(name)
          /\ observed' = [call |-> "set_active_persona", name |-> name,
                           returned |-> set_active_persona_returns(name),
                           before |-> active_persona]
    /\ UNCHANGED <<analyzeVars, appended, personas, todo_items, vision_model,
                   reasoning_model, rejected>>

\* ContextManager.load_todos called on a todo.txt of several lines
StoreLoadTodoFile ==
    /\ \E src \in TodoFiles :
          /\ todo_items' = load_todos(src)
          /\ observed' = [call |-> "load_todo_file", source |-> src,
                           text |-> get_todos_text(load_todos(src))]
    /\ UNCHANGED <<analyzeVars, appended, personas, active_persona,
                   vision_model, reasoning_model, rejected>>

\* ContextManager.load_todos called on a todo.txt of one line
StoreLoadTodos ==
    /\ \E line \in TodoLines :
          /\ todo_items' = load_todos(TodoFile(<<line>>))
          /\ observed' = [call |-> "load_todos", line |-> line]
    /\ UNCHANGED <<analyzeVars, appended, personas, active_persona,
                   vision_model, reasoning_model, rejected>>

\* -------------------------------------------- gateway harness (ollama.py)
\* what the backend does with GET /api/tags: `failed` stands for any exception
\* in the try block (timeout, transport error, a body that is not the expected
\* JSON); otherwise a status and the installed ids
TagsReply(failed, status, models) ==
    [failed |-> failed, status |-> status, models |-> models]
TagsReplies ==
    { TagsReply(TRUE, 0, <<>>), TagsReply(FALSE, 500, <<>>),
      TagsReply(FALSE, 200, <<>>),
      TagsReply(FALSE, 200, << <<"llama3", "latest">> >>),
      TagsReply(FALSE, 200, << <<"llama3">> >>),
      TagsReply(FALSE, 200, << <<"moondream", "latest">>, <<"llama3", "8b">> >>),
      TagsReply(FALSE, 200, << <<"llama3", "70b">>, <<"moondream", "latest">> >>) }

\* OllamaService.check_connection
check_connection(reply) == ~reply.failed /\ reply.status = 200

\* list_models that lets a backend failure through as an unknown list
list_models_Unchecked(reply) == reply.models \o << <<"llama3", "8b">> >>

\* OllamaService.list_models
list_models(reply) ==
    IF ~reply.failed /\ reply.status = 200 THEN reply.models ELSE <<>>

\* health_check that trusts the connection check alone
health_check_AlwaysHealthy(conn, tags) ==
    [status_code |-> 200, status |-> "healthy",
     ollama_connected |-> check_connection(conn),
     models_available |-> IF check_connection(conn) THEN list_models(tags)
                          ELSE <<>>]

\* routes.py health_check: the HealthResponse, from the replies to its two calls
health_check(conn, tags) ==
    [status_code |-> 200,
     status |-> IF check_connection(conn) THEN "healthy" ELSE "degraded",
     ollama_connected |-> check_connection(conn),
     models_available |-> IF check_connection(conn) THEN list_models(tags)
                          ELSE <<>>]

\* model ids a caller asks for as the reasoning and as the vision model
RequestedIds ==
    { NoModel, <<"llama3">>, <<"llama3", "8b">>, <<"llama3", "70b">>, <<"phi">> }
RequestedVisionIds == { NoModel, <<"moondream", "latest">>, <<"phi">> }

\* OllamaService.reload_models called with any ids against any backend reply
GatewayReload ==
    /\ \E vision \in RequestedVisionIds, reasoning \in RequestedIds,
          reply \in TagsReplies :
          LET done == reload_models(vision, reasoning, list_models(reply))
          IN  /\ vision_model' = done.vision_model
              /\ reasoning_model' = done.reasoning_model
              /\ observed' = [call |-> "reload_models", vision |-> vision,
                               reasoning |-> reasoning, reply |-> reply,
                               returned |-> done.ok,
                               before |-> <<vision_model, reasoning_model>>]
    /\ UNCHANGED <<analyzeVars, appended, personas, active_persona, todo_items,
                   rejected>>

\* POST /models/switch with its reply recorded
GatewaySwitch ==
    /\ \E request \in SwitchRequests, profiles \in ProfileSources,
          reply \in TagsReplies :
          LET done == switch_models(request, profiles, list_models(reply))
          IN  /\ vision_model' = done.vision_model
              /\ reasoning_model' = done.reasoning_model
              /\ observed' = [call |-> "switch_models", request |-> request,
                               profiles |-> profiles, reply |-> reply,
                               status |-> done.status, success |-> done.success,
                               reloaded |-> done.reloaded,
                               before |-> <<vision_model, reasoning_model>>]
    /\ UNCHANGED <<analyzeVars, appended, personas, active_persona, todo_items,
                   rejected>>

\* GET /health with its reply recorded
GatewayHealth ==
    /\ \E conn \in TagsReplies, tags \in TagsReplies :
          observed' = [call |-> "health_check", conn |-> conn, tags |-> tags,
                       response |-> health_check(conn, tags)]
    /\ UNCHANGED <<serverVars, rejected>>

\* analyze_image and generate_feedback called on any backend reply
GatewayInfer ==
    /\ \E reply \in BackendReplies :
          observed' = [call |-> "inference", reply |-> reply,
                       summary |-> analyze_image(reply),
                       feedback |-> generate_feedback(reply)]
    /\ UNCHANGED <<serverVars, rejected>>

\* ----------------------------------------------------------- window harness
\* entries the harness feeds to ContextWindow.add_entry
HarnessEntries ==
    { ContextEntry(meta, summary, t) :
        meta \in {m \in ClientMetadata : ~m.has_image},
        summary \in {None, "Looks like code."},
        t \in {0} }

\* one call of ContextWindow.add_entry on an arbitrary entry
WindowAdd ==
    /\ Len(appended) < MaxAppends
    /\ \E e \in HarnessEntries :
          /\ entries' = add_entry(entries, e, max_size)
          /\ appended' = Append(appended, e)
    /\ UNCHANGED <<max_size, capture_count, captures_before_feedback, now, pc,
                   client_metadata, vision_summary, should_generate, branch,
                   response, persona_prompt, calls, adminVars, rejected, observed>>

\* ----------------------------------------------------------- digest harness
\* datetime.strftime("%H:%M") of a time given in minutes
time_str(t) ==
    LET TwoDigits(n) == IF n < 10 THEN "0" \o ToString(n) ELSE ToString(n)
    IN  TwoDigits((t \div 60) % 24) \o ":" \o TwoDigits(t % 60)

\* entries[-5:] read from the wrong end
RecentEntries_Oldest(es) == SubSeq(es, 1, Min(5, Len(es)))

\* models.py 71: self.entries[-5:]
RecentEntries(es) ==
    IF Len(es) > 5 THEN SubSeq(es, Len(es) - 4, Len(es)) ELSE es

\* models.py 72-73: the line get_summary formats for one entry
SummaryLine(entry) ==
    <<"[", time_str(entry.timestamp), "]", " ", entry.class_name, "-",
      entry.window_title, ":", " ",
      OrElse(entry.vision_summary, "No visual summary")>>

\* ContextWindow.get_summary
get_summary(es) ==
    IF es = <<>> THEN <<"No recent activity recorded.">>
    ELSE JoinLines([i \in 1..Len(RecentEntries(es)) |->
                        SummaryLine(RecentEntries(es)[i])])

\* one call of ContextWindow.add_entry, a minute after the previous one and
\* starting two minutes before midnight
DigestAdd ==
    /\ now < MaxDigestAdds
    /\ \E meta \in {m \in ClientMetadata : ~m.has_image /\ m.user_status = "active"},
          summary \in {None, "", "Looks like code."} :
          entries' = add_entry(entries, ContextEntry(meta, summary, 1438 + now),
                               max_size)
    /\ now' = now + 1
    /\ UNCHANGED <<max_size, capture_count, captures_before_feedback, pc,
                   client_metadata, vision_summary, should_generate, branch,
                   response, persona_prompt, calls, appended, adminVars, rejected>>
    /\ UNCHANGED observed

\* one call of ContextWindow.get_summary
DigestSummary ==
    /\ observed' = [call |-> "get_summary", window |-> entries,
                     summary |-> get_summary(entries)]
    /\ UNCHANGED <<serverVars, rejected>>

\* ------------------------------------ get_context_manager (context.py 184-198)
\* the bookkeeping of the callers of get_context_manager: how many
\* ContextManager objects were constructed, whether initialize() has
\* finished, and what each caller was handed
Singleton(created, initialized, got) ==
    [call |-> "get_context_manager", created |-> created,
     initialized |-> initialized, got |-> got]

\* what a caller is handed: the manager as it is at that moment
Handed(initialized) ==
    [handed |-> TRUE, initialized |-> initialized,
     active_persona |-> active_persona.name, todo_count |-> Len(todo_items)]

\* a caller that has not returned yet
NotHanded ==
    [handed |-> FALSE, initialized |-> FALSE, active_persona |-> None,
     todo_count |-> 0]

\* context.py 193-196: _context_manager is None; construct it, publish it in
\* the global, and suspend in initialize() on the read of personas.json
GetContextManagerCreate(r) ==
    /\ NextToReceive(r)
    /\ observed.created = 0
    /\ pc' = [pc EXCEPT ![r] = "loading_personas"]
    /\ observed' = [observed EXCEPT !.created = @ + 1]
    /\ UNCHANGED <<entries, max_size, capture_count, captures_before_feedback,
                   now, client_metadata, vision_summary, should_generate, branch,
                   response, persona_prompt, calls, appended, adminVars,
                   rejected>>

\* context.py 193, 198: _context_manager is not None; hand it out as it is
GetContextManagerReuse(r) ==
    /\ NextToReceive(r)
    /\ observed.created > 0
    /\ pc' = [pc EXCEPT ![r] = "returned"]
    /\ observed' = [observed EXCEPT !.got[r] = Handed(observed.initialized)]
    /\ UNCHANGED <<entries, max_size, capture_count, captures_before_feedback,
                   now, client_metadata, vision_summary, should_generate, branch,
                   response, persona_prompt, calls, appended, adminVars,
                   rejected>>

\* context.py 34, 37-67: load_personas finishes (a personas.json that exists,
\* so that the load suspended on its read); load_todos suspends on its read
InitializePersonas(r) ==
    /\ pc[r] = "loading_personas"
    /\ \E src \in PersonaSources \ {MissingFile} :
          /\ personas' = load_personas(src).personas
          /\ active_persona' = load_personas(src).active_persona
    /\ pc' = [pc EXCEPT ![r] = "loading_todos"]
    /\ UNCHANGED <<entries, max_size, capture_count, captures_before_feedback,
                   now, client_metadata, vision_summary, should_generate, branch,
                   response, persona_prompt, calls, appended, todo_items,
                   vision_model, reasoning_model, rejected, observed>>

\* context.py 35, 80-119, 198: load_todos finishes (a todo.txt that exists),
\* initialize() is over and the first caller is handed the manager
InitializeTodos(r) ==
    /\ pc[r] = "loading_todos"
    /\ \E src \in TodoFiles \ {MissingFile} : todo_items' = load_todos(src)
    /\ pc' = [pc EXCEPT ![r] = "returned"]
    /\ observed' = [observed EXCEPT
                        !.initialized = TRUE,
                        !.got[r] = [Handed(TRUE) EXCEPT
                                       !.todo_count = Len(todo_items')]]
    /\ UNCHANGED <<entries, max_size, capture_count, captures_before_feedback,
                   now, client_metadata, vision_summary, should_generate, branch,
                   response, persona_prompt, calls, appended, personas,
                   active_persona, vision_model, reasoning_model, rejected>>

\* --------------------------------- capture client (companion_client.py)
\* wayland_utils.get_microphone_status
MicrophoneStatus == {"muted", "unmuted", "unknown"}

\* companion_client.py 200, 220: the user_status sent for a microphone status
user_status_sent(mic_status) ==
    IF mic_status = "unmuted" THEN "in_meeting" ELSE "active"

\* a client whose notification test looks at the feedback text only
should_notify_FeedbackOnly(reply, show_notifications) ==
    Truthy(reply.feedback) /\ show_notifications

\* companion_client.py 253: `feedback and show_notifications and not suppress`
should_notify(reply, show_notifications) ==
    /\ Truthy(reply.feedback)
    /\ show_notifications
    /\ ~reply.suppress_notification

\* the client's record of its captures: settings.show_notifications, and per
\* capture the microphone status read, how the request ended, and whether
\* send_notification was called with the feedback
CaptureLog(show_notifications) ==
    [call |-> "capture_and_send", show_notifications |-> show_notifications,
     mic_status |-> [r \in Req |-> None],
     outcome |-> [r \in Req |-> "pending"],
     notified |-> [r \in Req |-> FALSE]]

\* companion_client.py 236-260: _send_to_server returned the JSON body of
\* the 200 answer to capture r
ClientGetsResponse(r) ==
    /\ pc[r] = "responded"
    /\ observed.outcome[r] = "pending"
    /\ \E mic_status \in MicrophoneStatus :
          /\ user_status_sent(mic_status) = response[r].user_status
          /\ observed' = [observed EXCEPT
                 !.mic_status[r] = mic_status,
                 !.outcome[r] = "response",
                 !.notified[r] = should_notify(response[r],
                                               observed.show_notifications)]
    /\ UNCHANGED <<serverVars, rejected>>

\* companion_client.py 302-344, 261: the request for capture r was sent but
\* _send_to_server returned None (timeout, transport error)
ClientGetsNothing(r) ==
    /\ pc[r] # "idle"
    /\ observed.outcome[r] = "pending"
    /\ \E mic_status \in MicrophoneStatus :
          /\ user_status_sent(mic_status) = StatusOf(r)
          /\ observed' = [observed EXCEPT
                 !.mic_status[r] = mic_status,
                 !.outcome[r] = "no_response"]
    /\ UNCHANGED <<serverVars, rejected>>

\* --------------------------------------------------------- specifications
\* ContextManager.__init__ with the configured sizes, no request received yet
InitServerState(thresholds, sizes) ==
    /\ entries = <<>>
    /\ max_size \in sizes
    /\ capture_count = 0
    /\ captures_before_feedback \in thresholds
    /\ now = 0
    /\ pc = [r \in Req |-> "idle"]
    /\ client_metadata = [r \in Req |-> NoMetadata]
    /\ vision_summary = [r \in Req |-> None]
    /\ should_generate = [r \in Req |-> FALSE]
    /\ branch = [r \in Req |-> ""]
    /\ response = [r \in Req |-> NoResponse]
    /\ persona_prompt = [r \in Req |-> None]
    /\ calls = [r \in Req |-> NoCalls]
    /\ appended = <<>>
    /\ personas = load_personas(DeployedPersonas).personas
    /\ active_persona = load_personas(DeployedPersonas).active_persona
    /\ todo_items = load_todos(DeployedTodos)
    /\ vision_model = <<"moondream">>
    /\ reasoning_model = <<"llama3">>
    /\ rejected = NoRejection

\* the server after startup, no call recorded yet
InitWith(thresholds, sizes) ==
    /\ InitServerState(thresholds, sizes)
    /\ observed = NoCall

Init == InitWith(1..MaxThreshold, 1..MaxWindow)

Next ==
    \E r \in Req :
        \/ ReceiveWithImage(r)
        \/ ReceiveNoImage(r)
        \/ VisionReturn(r)
        \/ ReasoningReturn(r)

\* concurrent /analyze requests on one event loop
Spec == Init /\ [][Next]_vars

\* captures_before_feedback is not validated: 0 is a configurable threshold
InitGate == InitWith(0..MaxThreshold, 1..MaxWindow)
SpecGate == InitGate /\ [][Next]_vars

\* requests handled one at a time: the next arrives after the last responded
NextSeq ==
    \E r \in Req :
        \/ NoneInFlight /\ ReceiveWithImage(r)
        \/ NoneInFlight /\ ReceiveNoImage(r)
        \/ VisionReturn(r)
        \/ ReasoningReturn(r)

SpecSeq == Init /\ [][NextSeq]_vars

\* /analyze requests next to all the other endpoints
NextServer ==
    \/ \E r \in 1..MaxServerReq :
          \/ ReceiveWithImage(r)
          \/ ReceiveNoImage(r)
          \/ VisionReturn(r)
          \/ ReasoningReturn(r)
    \/ ActivatePersona
    \/ ReloadTodos
    \/ SwitchModels
    \/ HealthCheck
    \/ GetCurrentContext
    \/ ListPersonas
    \/ GetModels
    \/ PullModel

\* the other endpoints never touch the window, so one slot is enough here
InitServer == InitWith({1, MaxThreshold}, {1})
SpecServer == InitServer /\ [][NextServer]_vars

\* /analyze requests whose inference calls all return or time out: a handler
\* suspended at an await is resumed once the awaited call is over
NextLive ==
    \E r \in 1..MaxServerReq :
        \/ ReceiveWithImage(r)
        \/ ReceiveNoImage(r)
        \/ VisionReturn(r)
        \/ ReasoningReturn(r)

InferenceReturns ==
    \A r \in 1..MaxServerReq :
        WF_vars(VisionReturn(r)) /\ WF_vars(ReasoningReturn(r))

SpecLive == InitServer /\ [][NextLive]_vars /\ InferenceReturns

\* calls with and without a valid key and with malformed metadata, next to
\* accepted /analyze requests and the state-changing endpoints
NextAccess ==
    \/ \E r \in 1..MaxAccessReq :
          \/ ReceiveWithImage(r)
          \/ ReceiveNoImage(r)
          \/ VisionReturn(r)
          \/ ReasoningReturn(r)
    \/ \E endpoint \in ProtectedEndpoints : Unauthorized(endpoint)
    \/ AnalyzeMalformed
    \/ ActivatePersona
    \/ ReloadTodos
    \/ SwitchModels
    \/ HealthCheck

\* refusals do not depend on the gate: every capture may trigger feedback
InitAccess == InitWith({1}, {1})
SpecAccess == InitAccess /\ [][NextAccess]_vars

\* the persona store and the todo store driven directly
NextStores ==
    \/ StoreLoadPersonas
    \/ StoreActivate
    \/ StoreLoadTodos
    \/ StoreLoadTodoFile

\* the stores depend neither on the gate nor on the window
InitStores == InitWith({1}, {1})
SpecStores == InitStores /\ [][NextStores]_vars

\* the Inference Gateway and the routes built on it, driven directly
NextGateway ==
    \/ GatewayReload
    \/ GatewaySwitch
    \/ GatewayHealth
    \/ GatewayInfer

SpecGateway == InitStores /\ [][NextGateway]_vars

\* ContextWindow.add_entry driven directly
InitWindow == InitWith(1..MaxThreshold, 1..MaxCapacity)
NextWindow == WindowAdd
SpecWindow == InitWindow /\ [][NextWindow]_vars

\* ContextWindow.add_entry and get_summary on a window longer than a digest
InitDigest == InitWith({1}, {MaxDigestSize})
NextDigest == DigestAdd \/ DigestSummary
SpecDigest == InitDigest /\ [][NextDigest]_vars

\* concurrent /analyze requests on a window that holds several entries
InitOrder == InitWith({MaxThreshold}, {MaxOrderWindow})
NextOrder == Next \/ GetCurrentContext
SpecOrder == InitOrder /\ [][NextOrder]_vars

\* callers of get_context_manager in a process that has no ContextManager
\* yet: the fields are as ContextManager.__init__ leaves them
InitSingleton ==
    /\ entries = <<>>
    /\ max_size = 1
    /\ capture_count = 0
    /\ captures_before_feedback = 1
    /\ now = 0
    /\ pc = [r \in Req |-> "idle"]
    /\ client_metadata = [r \in Req |-> NoMetadata]
    /\ vision_summary = [r \in Req |-> None]
    /\ should_generate = [r \in Req |-> FALSE]
    /\ branch = [r \in Req |-> ""]
    /\ response = [r \in Req |-> NoResponse]
    /\ persona_prompt = [r \in Req |-> None]
    /\ calls = [r \in Req |-> NoCalls]
    /\ appended = <<>>
    /\ personas = <<>>
    /\ active_persona = NoPersona
    /\ todo_items = <<>>
    /\ vision_model = <<"moondream">>
    /\ reasoning_model = <<"llama3">>
    /\ rejected = NoRejection
    /\ observed = Singleton(0, FALSE, [r \in Req |-> NotHanded])

NextSingleton ==
    \E r \in Req :
        \/ GetContextManagerCreate(r)
        \/ GetContextManagerReuse(r)
        \/ InitializePersonas(r)
        \/ InitializeTodos(r)

SpecSingleton == InitSingleton /\ [][NextSingleton]_vars

\* one capture client, which sends its captures one after the other, and the
\* server that answers them
InitClient ==
    /\ InitServerState({MaxThreshold}, {1})
    /\ observed \in {CaptureLog(show) : show \in BOOLEAN}

NextClient ==
    \/ NextSeq
    \/ \E r \in Req : ClientGetsResponse(r) \/ ClientGetsNothing(r)

SpecClient == InitClient /\ [][NextClient]_vars

\* ------------------------------------------------------------------ claims
\* request r's observation enters the window in this step
AppendsNow(r) == ~Appended(r) /\ Appended(r)'

\* request r's reasoning call returns and the handler finishes in this step
FinishesReasoning(r) == pc[r] = "reasoning_pending" /\ pc'[r] = "responded"

\* some responded request went through the reasoning arm (a reset has happened)
SomeReset == \E r \in Req : pc[r] = "responded" /\ branch[r] = "reasoning"

\* C1: under any interleaving of /analyze requests, every appended
\* observation contributes to at most one trigger: the number of reasoning
\* invocations never exceeds floor(appended observations / threshold).
C1_TriggersBoundedByAppends ==
    NumReasoning * captures_before_feedback <= NumAppended

\* C2: append + gate check + reset of one request form one critical section
\* that ends before the reasoning call: while a request stands between its
\* gate check returning true and its reset, no other request appends, so the
\* reset erases no other request's increment.
C2_NoAppendBeforeReset ==
    [][(\E r \in Req : pc[r] = "reasoning_pending")
          => capture_count' # capture_count + 1]_vars

\* C3: after N add_entry calls on a window of capacity K >= 1 the window
\* holds exactly min(N, K) entries, never more than K, and they are the most
\* recently appended ones in append order; an append onto a full window
\* therefore evicts exactly the oldest entry.
C3_WindowHoldsLastK ==
    LET n == Len(appended)
        k == Min(n, max_size)
    IN  /\ Len(entries) = k
        /\ Len(entries) <= max_size
        /\ entries = SubSeq(appended, n - k + 1, n)

C3_Witness ==
    /\ max_size >= 2
    /\ Len(appended) > max_size
    /\ entries[1] # entries[Len(entries)]
    /\ appended[1] # entries[1]

\* C4: every add_context_entry increments capture_count by exactly 1,
\* whatever the user status and whichever arm the request then takes; with no
\* reset so far, capture_count equals the number of observations appended.
C4_CountsEveryAppend ==
    /\ [](~SomeReset => capture_count = NumAppended)
    /\ [][\A r \in Req : AppendsNow(r) => capture_count' = capture_count + 1]_vars

C4_Witness ==
    /\ ~SomeReset
    /\ capture_count = 3
    /\ \E r, q \in Req : /\ branch[r] = "suppressed"
                         /\ branch[q] = "accumulating"

\* C5: should_generate_feedback() is true exactly when capture_count >=
\* captures_before_feedback (the value each handler reads at routes.py 107
\* agrees with that comparison), and right after reset_capture_count() it is
\* false whenever the threshold is greater than 0.
C5_GateIsInclusiveThreshold ==
    [][/\ \A r \in Req :
             AppendsNow(r) =>
                (should_generate'[r] <=> capture_count' >= captures_before_feedback)
       /\ (\E r \in Req : FinishesReasoning(r)) /\ captures_before_feedback > 0 =>
             ~should_generate_feedback(capture_count', captures_before_feedback)]_vars

C5_Witness ==
    /\ captures_before_feedback = 2
    /\ capture_count = 0
    /\ \E r, q \in Req :
          /\ pc[r] = "responded" /\ branch[r] = "reasoning" /\ should_generate[r]
          /\ pc[q] = "responded" /\ branch[q] = "accumulating" /\ ~should_generate[q]

\* C6: with requests handled one after another, none of them in a meeting,
\* and capture_count starting at 0, the k-th response carries feedback and
\* suppress_notification = false exactly when k is a multiple of the
\* threshold T, and empty feedback with suppress_notification = true
\* otherwise; after the k-th response capture_count reads k mod T (0 after
\* the T-th, 1 after the next).
C6_FeedbackEveryTth ==
    \A r \in Req :
        (pc[r] = "responded" /\ \A q \in 1..r : StatusOf(q) # IN_MEETING) =>
            /\ IF r % captures_before_feedback = 0
               THEN /\ Truthy(response[r].feedback)
                    /\ ~response[r].suppress_notification
                    /\ branch[r] = "reasoning"
               ELSE /\ response[r].feedback = ""
                    /\ response[r].suppress_notification
                    /\ branch[r] = "accumulating"
            /\ (NumAppended = r /\ NoneInFlight) =>
                  capture_count = r % captures_before_feedback

C6_Witness ==
    /\ captures_before_feedback = 2
    /\ \A q \in 1..3 : pc[q] = "responded" /\ StatusOf(q) # IN_MEETING
    /\ response[1].feedback = ""
    /\ Truthy(response[2].feedback)
    /\ response[3].feedback = ""
    /\ capture_count = 1

\* C7: every /analyze request with in_meeting status is answered with the
\* suppression sentinel and suppress_notification = true, and its observation
\* increments capture_count by exactly 1 like any other.
C7_MeetingSuppressedButCounted ==
    /\ [](\A r \in Req :
            (pc[r] = "responded" /\ response[r].user_status = IN_MEETING) =>
                /\ response[r].feedback = MeetingSentinel
                /\ response[r].suppress_notification)
    /\ [][\A r \in Req :
            (AppendsNow(r) /\ StatusOf(r)' = IN_MEETING) =>
                capture_count' = capture_count + 1]_vars

C7_Witness ==
    \E r \in Req :
        /\ pc[r] = "responded"
        /\ response[r].user_status = IN_MEETING
        /\ should_generate[r]
        /\ response[r].feedback = MeetingSentinel

\* C8: a request with in_meeting status never invokes the reasoning model and
\* never resets capture_count, also when the gate is open.
C8_MeetingNeverReasonsNorResets ==
    /\ [](\A r \in Req :
            (pc[r] # "idle" /\ StatusOf(r) = IN_MEETING) =>
                /\ pc[r] # "reasoning_pending"
                /\ branch[r] # "reasoning")
    /\ [][\A r \in Req :
            (pc'[r] # pc[r] /\ StatusOf(r)' = IN_MEETING) =>
                capture_count' >= capture_count]_vars

C8_Witness ==
    \E r \in Req :
        /\ pc[r] = "responded"
        /\ response[r].user_status = IN_MEETING
        /\ should_generate[r]
        /\ capture_count > captures_before_feedback

\* C9: capture_count goes back to 0 only in the step in which a request that
\* took the reasoning arm (gate open, not in a meeting) finishes, and every
\* such request resets it; no other step lowers it.
C9_ResetOnlyOnReasoningPath ==
    [][/\ capture_count' < capture_count =>
             /\ capture_count' = 0
             /\ \E r \in Req :
                   /\ FinishesReasoning(r)
                   /\ branch[r] = "reasoning"
                   /\ should_generate[r]
                   /\ response'[r].user_status # IN_MEETING
       /\ \A r \in Req : FinishesReasoning(r) => capture_count' = 0
       /\ (\A r \in Req : ~FinishesReasoning(r)) => capture_count' >= capture_count
      ]_vars

\* a reasoning request has reset the counter, a later meeting request found the
\* gate open and left the counter alone, and the other endpoints have acted
C9_Witness ==
    /\ captures_before_feedback = 1
    /\ capture_count = 1
    /\ \E r, q \in Req :
          /\ pc[r] = "responded" /\ branch[r] = "reasoning"
          /\ pc[q] = "responded" /\ branch[q] = "suppressed"
    /\ active_persona.name = "Coach"
    /\ todo_items = <<>>
    /\ reasoning_model = <<"llama3", "8b">>

\* C10: appending an observation to the window and incrementing
\* capture_count happen in one step: no state has the window changed without
\* the counter incremented, or the counter incremented without the window
\* changed, also while other requests are suspended in inference calls.
C10_AppendAndCountTogether ==
    [][(entries' # entries) <=> (capture_count' = capture_count + 1)]_vars

C10_Witness ==
    \E r, q \in Req :
        /\ pc[r] = "vision_pending"
        /\ pc[q] = "reasoning_pending"
        /\ Len(entries) > 0
        /\ capture_count > 0

\* request r is suspended in a vision or reasoning inference call
InInference(r) == pc[r] \in {"vision_pending", "reasoning_pending"}

\* C11: while a request waits on a vision or reasoning inference call, the
\* next request to arrive can run its append and gate check at once, and a
\* request whose vision call returns can run its own: no lock on the window
\* and the gate is held across an inference call.
C11_InferenceBlocksNoAppend ==
    \A r, q \in Req :
        (r # q /\ InInference(r)) =>
            /\ (pc[q] = "idle" /\ \A p \in 1..(q - 1) : pc[p] # "idle")
                  => ENABLED ReceiveNoImage(q)
            /\ pc[q] = "vision_pending" => ENABLED VisionReturn(q)

\* request 1 (no image) still waits on its reasoning call, request 2 arrived
\* after it and has already appended and responded, request 3 waits on vision
C11_Witness ==
    /\ pc[1] = "reasoning_pending" /\ ~client_metadata[1].has_image
    /\ pc[2] = "responded" /\ branch[2] = "suppressed"
    /\ pc[3] = "vision_pending"
    /\ capture_count = 2

\* C12: a request that finishes the reasoning arm responds with non-empty
\* feedback and suppress_notification = false and leaves capture_count at 0,
\* whatever the reasoning call returned; a call that yields no text (None:
\* failure, non-200, or empty after stripping) gives the fallback phrase.
C12_ReasoningAlwaysAnswers ==
    [][\A r \in Req :
          FinishesReasoning(r) =>
             /\ Truthy(response'[r].feedback)
             /\ ~response'[r].suppress_notification
             /\ capture_count' = 0
             /\ response'[r].feedback # FallbackFeedback =>
                   \E reply \in BackendReplies :
                       /\ Truthy(generate_feedback(reply))
                       /\ response'[r].feedback = generate_feedback(reply)
             /\ \A reply \in BackendReplies :
                   (reply = Raised \/ reply.status # 200 \/ Strip(reply.response) = "")
                      => OrElse(generate_feedback(reply), FallbackFeedback)
                            = FallbackFeedback]_vars

\* one reasoning request answered with the fallback, another with model text
C12_Witness ==
    /\ capture_count = 0
    /\ \E r, q \in Req :
          /\ pc[r] = "responded" /\ branch[r] = "reasoning"
          /\ response[r].feedback = FallbackFeedback
          /\ pc[q] = "responded" /\ branch[q] = "reasoning"
          /\ response[q].feedback = "Looks like code."

\* C13: in every /analyze response suppress_notification is true exactly
\* when the feedback text is empty or the meeting-suppression arm was taken.
C13_SuppressIffEmptyOrMeeting ==
    \A r \in Req :
        pc[r] = "responded" =>
            (response[r].suppress_notification
                <=> (response[r].feedback = "" \/ branch[r] = "suppressed"))

\* one response of each kind: reasoning, accumulating, meeting
C13_Witness ==
    \E r, q, p \in Req :
        /\ pc[r] = "responded" /\ branch[r] = "reasoning"
        /\ ~response[r].suppress_notification
        /\ pc[q] = "responded" /\ branch[q] = "accumulating"
        /\ response[q].feedback = "" /\ response[q].suppress_notification
        /\ pc[p] = "responded" /\ branch[p] = "suppressed"
        /\ response[p].feedback = MeetingSentinel
        /\ response[p].suppress_notification

\* C14: the observation a request appends never carries a null vision
\* summary: with an image attached and no result from analyze_image the
\* request appends an explanatory fallback string and goes on to respond;
\* with no image attached the summary is the placeholder built from the
\* window title.
C14_NullVisionReplaced ==
    [][\A r \in Req :
          AppendsNow(r) =>
             LET e == entries'[Len(entries')]
             IN  /\ e.vision_summary # None
                 /\ pc[r] = "idle" =>
                       e.vision_summary = PlaceholderSummary(e.window_title)]_vars

\* C15: every /analyze request the handler has accepted eventually reaches
\* responded with a FeedbackResponse (feedback is a string), whatever the
\* vision and reasoning calls returned, provided every inference call returns
\* or times out.
C15_EveryRequestResponds ==
    \A r \in Req :
        (pc[r] # "idle") ~> (pc[r] = "responded" /\ response[r].feedback # None)

\* a request with an image has responded after both of its inference calls
\* gave nothing
C15_Witness ==
    /\ pc[1] = "responded" /\ pc[2] = "idle"
    /\ entries[1].vision_summary = None
    /\ branch[1] = "reasoning"
    /\ response[1].feedback = FallbackFeedback

\* C16: an /analyze request whose metadata does not parse is answered with a
\* 4xx status and its step changes nothing the server keeps: no window entry,
\* no count, no request enters an inference call, persona, todos and model
\* selection stay as they were.
C16_MalformedRejectedUntouched ==
    [][(rejected' # rejected /\ rejected'.stage = "metadata") =>
          /\ rejected'.endpoint = "analyze"
          /\ rejected'.status \in 400..499
          /\ UNCHANGED serverVars]_vars

\* a malformed request was refused while an accepted one waits on its
\* reasoning call, after persona, todos and models were changed
C16_Witness ==
    /\ rejected.stage = "metadata" /\ rejected.status = 400
    /\ pc[1] = "reasoning_pending" /\ capture_count = 1 /\ Len(entries) = 1
    /\ active_persona.name = "Coach"
    /\ todo_items = <<>>
    /\ reasoning_model = <<"llama3", "8b">>

\* C17: a call to an endpoint other than /health with a missing or
\* mismatched API key is answered 401, and its step changes nothing the
\* server keeps and starts no inference call.
C17_BadKeyUnauthorized ==
    [][(rejected' # rejected /\ rejected'.stage = "verify_api_key") =>
          /\ rejected'.endpoint \in ProtectedEndpoints
          /\ rejected'.status = 401
          /\ UNCHANGED serverVars]_vars

\* C18: set_active_persona(name) returns true exactly when a loaded persona
\* has that name; then active_persona has that name afterwards; otherwise
\* active_persona is the one active before the call; the persona list is the
\* same after the call in both cases.
C18_ActivationRoundTrip ==
    /\ [](observed.call = "set_active_persona" =>
            LET known == \E i \in 1..Len(personas) :
                             personas[i].name = observed.name
            IN  /\ observed.returned <=> known
                /\ known => active_persona.name = observed.name
                /\ ~known => active_persona = observed.before)
    /\ [][(observed'.call = "set_active_persona" /\ observed' # observed)
              => personas' = personas]_vars

\* an unknown name was refused after another persona than the configured
\* default had been activated, which stayed active
C18_Witness ==
    /\ observed.call = "set_active_persona"
    /\ observed.name = "Nobody" /\ ~observed.returned
    /\ Len(personas) = 2
    /\ active_persona.name = "Coach"

\* C19: load_personas always leaves a usable store. When the file is missing
\* or unparseable, holds an invalid persona, or lists none, the store is
\* exactly the built-in persona, which is active. Otherwise the store is the
\* listed personas in order, and the active one is the persona named by
\* "default", or the first listed one when no name matches.
C19_PersonasLoadSoft ==
    observed.call = "load_personas" =>
        LET src == observed.source
            unusable == \/ src.kind # "file"
                        \/ Len(src.personas) = 0
                        \/ \E i \in 1..Len(src.personas) : ~src.personas[i].valid
        IN  /\ active_persona # NoPersona
            /\ \E i \in 1..Len(personas) : personas[i] = active_persona
            /\ unusable =>
                  /\ personas = <<DefaultPersona>>
                  /\ active_persona = DefaultPersona
            /\ ~unusable =>
                  /\ Len(personas) = Len(src.personas)
                  /\ \A i \in 1..Len(personas) :
                        personas[i].name = src.personas[i].name
                  /\ IF \E i \in 1..Len(personas) : personas[i].name = src.default
                     THEN active_persona.name = src.default
                     ELSE active_persona = personas[1]

\* a file whose "default" names no listed persona was loaded: the first is active
C19_Witness ==
    /\ observed.call = "load_personas"
    /\ observed.source.kind = "file"
    /\ observed.source.default = "Nobody"
    /\ Len(personas) = 2
    /\ active_persona.name = "Coach"

\* the uppercase letters
UppercaseLetters ==
    {"A", "B", "C", "D", "E", "F", "G", "H", "I", "J", "K", "L", "M", "N", "O",
     "P", "Q", "R", "S", "T", "U", "V", "W", "X", "Y", "Z"}

\* C20: for a todo line (surrounding blanks removed, not empty) load_todos
\* yields one item; it is completed exactly when the line begins with "x ",
\* which is removed; its priority is X exactly when what remains begins with
\* "(X) ", X one uppercase letter, which is removed; otherwise it has no
\* priority and keeps the whole remaining text; the rest is the task body
\* (compared up to surrounding blanks).
C20_TodoLineParsed ==
    observed.call = "load_todos" =>
        LET stripped == StripLine(observed.line)
            completed == /\ Len(stripped) >= 2
                         /\ stripped[1] = "x" /\ stripped[2] = " "
            rest == IF completed THEN From(stripped, 2) ELSE stripped
            marked == /\ Len(rest) >= 4
                      /\ rest[1] = "(" /\ rest[2] \in UppercaseLetters
                      /\ rest[3] = ")" /\ rest[4] = " "
        IN  IF stripped = <<>> THEN todo_items = <<>>
            ELSE /\ Len(todo_items) = 1
                 /\ todo_items[1].completed = completed
                 /\ todo_items[1].priority = (IF marked THEN rest[2] ELSE None)
                 /\ StripLine(todo_items[1].text) =
                       StripLine(IF marked THEN From(rest, 4) ELSE rest)

\* the "\n"-separated lines of a text
RECURSIVE SplitLines(_)
SplitLines(text) ==
    IF \E i \in 1..Len(text) : text[i] = "\n"
    THEN LET i == CHOOSE j \in 1..Len(text) :
                     /\ text[j] = "\n"
                     /\ \A k \in 1..(j - 1) : text[k] # "\n"
         IN  <<SubSeq(text, 1, i - 1)>> \o SplitLines(SubSeq(text, i + 1, Len(text)))
    ELSE <<text>>

NotCompleted(item) == ~item.completed

\* C21: get_todos_text is the "no todos" sentinel when the list is empty
\* (a missing or unreadable source loads as the empty list), the "all done"
\* sentinel when every item is completed, and otherwise one line per
\* incomplete item, in file order: "- ", then "(P) " when the item has
\* priority P, then the text.
C21_TodoTextRendersOpenItems ==
    LET open == SelectSeq(todo_items, NotCompleted)
        text == get_todos_text(todo_items)
    IN  /\ (observed.call = "load_todo_file" /\ observed.source.kind # "file")
              => (todo_items = <<>> /\ observed.text = <<"No todos defined.">>)
        /\ observed.call = "load_todo_file" => observed.text = text
        /\ todo_items = <<>> => text = <<"No todos defined.">>
        /\ (todo_items # <<>> /\ open = <<>>) => text = <<"All todos completed!">>
        /\ open # <<>> =>
              /\ Len(SplitLines(text)) = Len(open)
              /\ \A k \in 1..Len(open) :
                    SplitLines(text)[k] =
                        <<"-", " ">>
                        \o (IF open[k].priority # None
                            THEN <<"(", open[k].priority, ")", " ">> ELSE <<>>)
                        \o open[k].text

\* a file with a completed item between open ones, one of them with priority
C21_Witness ==
    /\ observed.call = "load_todo_file"
    /\ Len(todo_items) = 4
    /\ todo_items[2].completed
    /\ Len(SplitLines(observed.text)) = 3
    /\ SplitLines(observed.text)[2] = <<"-", " ", "(", "A", ")", " ", "m">>

\* the backend answered GET /api/tags with a readable list
ListFetched(reply) == ~reply.failed /\ reply.status = 200

\* C22: a reload asking for one model id against a fetched installed list
\* succeeds when the id equals an installed id, or has no tag and shares its
\* base name with an installed id; it fails when no installed id shares its
\* base name, or when it has a tag and every installed id of that base name
\* has a different tag.
C22_TagAwareMatching ==
    (/\ observed.call = "reload_models"
     /\ ListFetched(observed.reply)
     /\ (observed.vision = NoModel) # (observed.reasoning = NoModel)) =>
        LET id == IF observed.vision # NoModel THEN observed.vision
                  ELSE observed.reasoning
            installed == observed.reply.models
            sameBase == {i \in 1..Len(installed) : installed[i][1] = id[1]}
        IN  /\ (\E i \in 1..Len(installed) : installed[i] = id)
                  => observed.returned
            /\ (Len(id) = 1 /\ sameBase # {}) => observed.returned
            /\ sameBase = {} => ~observed.returned
            /\ (/\ Len(id) = 2
                /\ \A i \in sameBase :
                      Len(installed[i]) = 2 /\ installed[i][2] # id[2])
                  => ~observed.returned

\* "llama3:8b" was refused against an installed "llama3:70b"
C22_Witness ==
    /\ observed.call = "reload_models"
    /\ observed.vision = NoModel
    /\ observed.reasoning = <<"llama3", "8b">>
    /\ ListFetched(observed.reply)
    /\ \E i \in 1..Len(observed.reply.models) :
          observed.reply.models[i] = <<"llama3", "70b">>
    /\ ~observed.returned

\* C23: reload_models returns true exactly when every requested id validates
\* against the installed list (empty when the list cannot be fetched); when
\* it returns false both model ids are what they were before the call; when
\* it returns true each requested id is the current one and an id that was
\* not requested is what it was.
C23_ReloadAllOrNothing ==
    observed.call = "reload_models" =>
        LET installed == IF ListFetched(observed.reply)
                         THEN observed.reply.models ELSE <<>>
            valid(id) == id = NoModel \/ model_exists(id, installed)
        IN  /\ observed.returned
                  <=> (valid(observed.vision) /\ valid(observed.reasoning))
            /\ ~observed.returned =>
                  <<vision_model, reasoning_model>> = observed.before
            /\ observed.returned =>
                  /\ vision_model = IF observed.vision # NoModel
                                    THEN observed.vision ELSE observed.before[1]
                  /\ reasoning_model = IF observed.reasoning # NoModel
                                       THEN observed.reasoning
                                       ELSE observed.before[2]

\* an installed vision id was asked for together with a reasoning id that is
\* not installed: refused, and the vision model is still the old one
C23_Witness ==
    /\ observed.call = "reload_models"
    /\ observed.vision = <<"moondream", "latest">>
    /\ model_exists(observed.vision, observed.reply.models)
    /\ observed.reasoning = <<"phi">>
    /\ ~observed.returned
    /\ vision_model = <<"moondream">>

\* C24: a reload (direct, or through /models/switch) that changes both models
\* does so within one step of the event loop: in every step in which such a
\* reload changes one of the two ids, the other one changes too, so the
\* calls interleaved with it see both ids old or both ids new.
C24_BothModelsSwitchTogether ==
    [][(/\ observed' # observed
        /\ observed'.call \in {"reload_models", "switch_models"}
        /\ vision_model' # vision_model \/ reasoning_model' # reasoning_model) =>
          LET asked == IF observed'.call = "reload_models"
                       THEN <<observed'.vision, observed'.reasoning>>
                       ELSE IF observed'.request.profile # None
                       THEN <<observed'.profiles.profiles[
                                  observed'.request.profile].vision_model,
                              observed'.profiles.profiles[
                                  observed'.request.profile].reasoning_model>>
                       ELSE <<observed'.request.vision_model,
                              observed'.request.reasoning_model>>
          IN  /\ asked[1] # NoModel => vision_model' = asked[1]
              /\ asked[2] # NoModel => reasoning_model' = asked[2]]_vars

\* a reload has just replaced both ids
C24_Witness ==
    /\ observed.call = "reload_models" /\ observed.returned
    /\ vision_model = <<"moondream", "latest">>
    /\ reasoning_model = <<"llama3", "70b">>
    /\ observed.before[1] # vision_model
    /\ observed.before[2] # reasoning_model

\* the backend did not answer GET /api/tags with a well-formed 200
TagsFailed(reply) == reply.failed \/ reply.status # 200

\* the backend did not answer POST /api/generate with a well-formed 200
GenerateFailed(reply) == reply = Raised \/ reply.status # 200

\* what every gateway operation but reload_models makes of a backend failure
AbsorbedOutsideReload ==
    /\ (observed.call = "health_check" /\ TagsFailed(observed.conn)) =>
          ~observed.response.ollama_connected
    /\ (observed.call = "health_check" /\ ~TagsFailed(observed.conn)
            /\ TagsFailed(observed.tags)) =>
          observed.response.models_available = <<>>
    /\ (observed.call = "inference" /\ GenerateFailed(observed.reply)) =>
          (observed.summary = None /\ observed.feedback = None)

NamesMissingModel ==
    /\ observed.call = "switch_models"
    /\ observed.request.profile = None
    /\ \/ /\ observed.request.vision_model # NoModel
          /\ ~model_exists(observed.request.vision_model,
                           list_models(observed.reply))
       \/ /\ observed.request.reasoning_model # NoModel
          /\ ~model_exists(observed.request.reasoning_model,
                           list_models(observed.reply))

\* C26: POST /models/switch naming a model id that is not installed answers
\* 404 and leaves vision_model and reasoning_model as they were.
C26_MissingModelNotFound ==
    NamesMissingModel =>
        /\ observed.status = 404
        /\ <<vision_model, reasoning_model>> = observed.before

\* the switch recorded in observed named a profile that cannot be resolved
NamesUnknownProfile ==
    /\ observed.call = "switch_models"
    /\ observed.request.profile # None
    /\ \/ observed.profiles.kind # "file"
       \/ observed.request.profile \notin DOMAIN observed.profiles.profiles

\* C27: POST /models/switch naming an unknown profile answers 404 without
\* calling reload_models, and vision_model and reasoning_model stay as they
\* were.
C27_UnknownProfileNotFound ==
    NamesUnknownProfile =>
        /\ observed.status = 404
        /\ ~observed.reloaded
        /\ <<vision_model, reasoning_model>> = observed.before

\* profile "slow" was asked for while the profiles file defines only "fast"
C27_Witness ==
    /\ NamesUnknownProfile
    /\ observed.profiles.kind = "file"
    /\ observed.request.profile = "slow"
    /\ observed.status = 404

\* C28: get_summary answers "No recent activity recorded." on an empty
\* window; otherwise its text has exactly min(5, length) lines, the i-th of
\* them formatted from the i-th of the last min(5, length) entries of the
\* window (oldest first), ending in the entry's vision summary, or in
\* "No visual summary" when the entry has none.
C28_DigestOfRecentEntries ==
    observed.call = "get_summary" =>
        LET window == observed.window
            lines == SplitLines(observed.summary)
            count == Min(5, Len(window))
        IN  /\ window = <<>> =>
                  observed.summary = <<"No recent activity recorded.">>
            /\ window # <<>> =>
                  /\ Len(lines) = count
                  /\ \A i \in 1..count :
                        LET entry == window[Len(window) - count + i]
                        IN  /\ Len(lines[i]) = 10
                            /\ lines[i][2] = time_str(entry.timestamp)
                            /\ lines[i][5] = entry.class_name
                            /\ lines[i][7] = entry.window_title
                            /\ lines[i][10] =
                                  IF entry.vision_summary \in {None, ""}
                                  THEN "No visual summary"
                                  ELSE entry.vision_summary

\* a digest of a window of six entries, past midnight, of which the oldest is
\* left out and one shown entry has no summary
C28_Witness ==
    /\ observed.call = "get_summary"
    /\ Len(observed.window) = 6
    /\ observed.window[1].vision_summary = "Looks like code."
    /\ observed.window[3].vision_summary = None
    /\ Len(SplitLines(observed.summary)) = 5
    /\ SplitLines(observed.summary)[1][2] = "23:59"
    /\ SplitLines(observed.summary)[2][2] = "00:00"
    /\ SplitLines(observed.summary)[2][10] = "No visual summary"

\* C29: GET /health always answers 200; when the backend did not answer the
\* connection check it reports "degraded" with no models, and it reports
\* "healthy" only when the backend answered the connection check.
C29_HealthDegradedNotFailed ==
    observed.call = "health_check" =>
        /\ observed.response.status_code = 200
        /\ TagsFailed(observed.conn) =>
              /\ observed.response.status = "degraded"
              /\ ~observed.response.ollama_connected
              /\ observed.response.models_available = <<>>
        /\ observed.response.status = "healthy" => ~TagsFailed(observed.conn)

\* the health probe ran while the backend refused the connection
C29_Witness ==
    /\ observed.call = "health_check"
    /\ observed.conn.failed
    /\ observed.response.status = "degraded"
    /\ observed.response.status_code = 200

\* C30: observations enter the context window in the order in which the
\* server received their requests: when request r appends, every request
\* received before it has appended already.
C30_AppendsInSubmissionOrder ==
    [][\A r \in Req :
          AppendsNow(r) => \A q \in 1..(r - 1) : Appended(q)]_vars

\* C31: in every reachable state the timestamps of the entries in the
\* context window do not decrease from the oldest entry to the newest.
C31_TimestampsNonDecreasing ==
    \A i \in 1..Len(entries) : \A j \in i..Len(entries) :
        entries[i].timestamp <= entries[j].timestamp

\* the window holds the entries of the second and third request received,
\* in the order of their appends, while the first one received still waits
\* on its vision call
C31_Witness ==
    /\ Len(entries) = 2
    /\ entries[1].timestamp < entries[2].timestamp
    /\ pc[1] = "vision_pending"
    /\ pc[2] = "responded" /\ pc[3] = "responded"
    /\ entries[1].vision_summary = PlaceholderSummary("editor")
    /\ entries[2].vision_summary = "Looks like code."

\* C32: one /analyze request goes through parse, optional vision call,
\* append, gate check, optional reasoning call, response, in this order: the
\* step that starts the vision call appends nothing; the reasoning call is
\* started only by the step that holds the request's own append and gate
\* check, with the gate read open; the counter is reset only by the step in
\* which a reasoning call returns, and that step responds.
C32_StepsInFixedOrder ==
    [][(\A r \in Req :
          /\ (pc'[r] # pc[r]) =>
                (\/ (pc[r] = "idle" /\ pc'[r] \in {"vision_pending",
                                                   "reasoning_pending",
                                                   "responded"})
                 \/ (pc[r] = "vision_pending"
                        /\ pc'[r] \in {"reasoning_pending", "responded"})
                 \/ (pc[r] = "reasoning_pending" /\ pc'[r] = "responded"))
          /\ (pc[r] = "idle" /\ pc'[r] = "vision_pending") =>
                (/\ entries' = entries /\ capture_count' = capture_count
                 /\ now' = now /\ response'[r] = NoResponse)
          /\ (pc[r] # "reasoning_pending" /\ pc'[r] = "reasoning_pending") =>
                (/\ now' = now + 1
                 /\ entries'[Len(entries')].timestamp = now'
                 /\ capture_count' = capture_count + 1
                 /\ should_generate'[r]
                 /\ response'[r] = NoResponse)
          /\ (pc[r] \in {"idle", "vision_pending"} /\ pc'[r] = "responded") =>
                (/\ now' = now + 1
                 /\ entries'[Len(entries')].timestamp = now'
                 /\ capture_count' = capture_count + 1)
          /\ (pc[r] = "reasoning_pending" /\ pc'[r] = "responded") =>
                (/\ entries' = entries /\ now' = now /\ capture_count' = 0))
       /\ (capture_count' < capture_count =>
             \E q \in Req : pc[q] = "reasoning_pending" /\ pc'[q] = "responded")]_vars

\* a request with an image has gone through vision, append, gate, reasoning
\* and reset, and has responded
C32_Witness ==
    /\ pc[1] = "responded" /\ pc[2] = "idle"
    /\ branch[1] = "reasoning"
    /\ entries[Len(entries)].vision_summary = "Looks like code."
    /\ capture_count = 0 /\ now = 1
    /\ response[1].feedback = "Looks like code."

\* C33: no inference call is issued twice. The step that receives request r
\* issues one vision call when, and only when, the request carries an image
\* (whatever its user status); no later step of r issues another one, also
\* after a failed call. The step that appends r's observation issues one
\* reasoning call when, and only when, the status is not in_meeting and the
\* gate is open after r's own increment; no other step issues one. A
\* request that has responded issues no call.
C33_NoCallIssuedTwice ==
    [][\A r \in Req :
          /\ (pc[r] = "idle" /\ pc'[r] # "idle") =>
                (\/ (/\ calls'[r].vision = 1
                     /\ pc'[r] = "vision_pending"
                     /\ client_metadata'[r].has_image)
                 \/ (/\ calls'[r].vision = 0
                     /\ pc'[r] # "vision_pending"
                     /\ entries'[Len(entries')].vision_summary =
                           PlaceholderSummary(entries'[Len(entries')].window_title)))
          /\ (pc[r] = "vision_pending" /\ pc'[r] = "vision_pending") =>
                (calls'[r] = calls[r])
          /\ (pc[r] = "vision_pending" /\ pc'[r] # "vision_pending") =>
                (/\ calls[r].vision = 1
                 /\ pc'[r] \in {"reasoning_pending", "responded"})
          /\ (pc'[r] = "reasoning_pending") =>
                (/\ calls'[r].reasoning = 1
                 /\ calls'[r].vision <= 1
                 /\ pc[r] # "reasoning_pending" => AppendsNow(r))
          /\ AppendsNow(r) =>
                ((pc'[r] = "reasoning_pending") <=>
                    (/\ StatusOf(r)' # IN_MEETING
                     /\ capture_count' >= captures_before_feedback))
          /\ (pc[r] = "responded") =>
                (pc'[r] = "responded" /\ calls'[r] = NoCalls)]_vars

\* a request sent with an image made one vision call, which failed; its
\* observation was appended without a summary and without a second vision
\* call, and its one reasoning call is under way
C33_Witness ==
    /\ pc[1] = "reasoning_pending"
    /\ calls[1] = [vision |-> 1, reasoning |-> 1]
    /\ entries[Len(entries)].vision_summary = None
    /\ now = 1

\* the request answered just before r was sent during a meeting, and the
\* counter stands at threshold-1 or more
MeetingEnded(r) ==
    /\ r > 1
    /\ pc[r - 1] = "responded"
    /\ response[r - 1].user_status = IN_MEETING
    /\ capture_count >= captures_before_feedback - 1

\* C34: with requests handled one after the other, meeting observations
\* count without resetting, so capture_count may pass the threshold during
\* a meeting; when it stands at threshold-1 or more as the meeting ends, the
\* first observation sent outside the meeting is counted, finds the gate
\* open and starts the reasoning call at once, and capture_count is 0 when
\* that call has returned.
C34_FeedbackRightAfterMeeting ==
    [][\A r \in Req :
          /\ (pc[r] = "reasoning_pending" /\ pc'[r] = "responded") =>
                (/\ capture_count' = 0
                 /\ response'[r].feedback \notin {"", MeetingSentinel}
                 /\ ~response'[r].suppress_notification)
          /\ (AppendsNow(r) /\ StatusOf(r)' = IN_MEETING) =>
                (/\ capture_count' = capture_count + 1
                 /\ pc'[r] = "responded")
          /\ (MeetingEnded(r) /\ AppendsNow(r) /\ StatusOf(r)' # IN_MEETING) =>
                (/\ capture_count' = capture_count + 1
                 /\ pc'[r] = "reasoning_pending"
                 /\ calls'[r].reasoning = 1)]_vars

\* two meeting observations took the counter past a threshold of 1; the
\* first observation after the meeting got feedback and the counter is 0
C34_Witness ==
    /\ captures_before_feedback = 1
    /\ \A r \in 1..3 : pc[r] = "responded"
    /\ response[1].user_status = IN_MEETING
    /\ response[2].user_status = IN_MEETING
    /\ response[3].user_status = "active"
    /\ branch[3] = "reasoning"
    /\ now = 3
    /\ capture_count = 0

\* C35: an entry in the context window is never modified or replaced: a step
\* that changes the window keeps every entry it held, unchanged and in the
\* same order, behind at most one entry dropped from the front, and adds
\* exactly one entry at the back; the front entry is dropped only when the
\* window was full.
C35_EntriesImmutableFifo ==
    [][entries' # entries =>
          LET kept == IF Len(entries) < max_size THEN entries ELSE Tail(entries)
          IN  /\ Len(entries') = Len(kept) + 1
              /\ SubSeq(entries', 1, Len(kept)) = kept]_vars

\* three concurrent requests on a window of two: the first entry was evicted
\* and the second kept as it was
C35_Witness ==
    /\ max_size = 2 /\ Len(entries) = 2 /\ now = 3
    /\ entries[1].timestamp = 2 /\ entries[2].timestamp = 3
    /\ entries[1].vision_summary = None
    /\ \E r \in Req : pc[r] = "reasoning_pending"
    /\ \E r \in Req : pc[r] = "responded" /\ response[r].feedback = ""

\* C36: the context window and capture_count change only in steps of
\* /analyze handlers: a step in which no /analyze handler moves (persona
\* activation, todo reload, model switch, model pull, /health, /context,
\* /personas, /models) leaves both as they were; and a step that changes the
\* active persona or the todo items leaves the model selection as it was.
C36_OnlyAnalyzeWritesWindow ==
    [][/\ (pc' = pc) =>
             (/\ entries' = entries /\ capture_count' = capture_count
              /\ max_size' = max_size /\ now' = now)
       /\ (active_persona' # active_persona \/ todo_items' # todo_items) =>
             (vision_model' = vision_model /\ reasoning_model' = reasoning_model)
       /\ (vision_model' # vision_model \/ reasoning_model' # reasoning_model) =>
             (pc' = pc /\ personas' = personas)]_vars

\* persona, todos and models were all changed while a request that counted
\* one capture is waiting on its reasoning call
C36_Witness ==
    /\ active_persona.name = "Coach"
    /\ todo_items = <<>>
    /\ reasoning_model = <<"llama3", "8b">>
    /\ pc[1] = "reasoning_pending"
    /\ capture_count = 1 /\ Len(entries) = 1

\* C37: once the personas have been loaded, in every reachable state one
\* persona is active: active_persona is not None and is one of the entries
\* of personas, whatever file was loaded and whatever names were asked for
\* in activations since, found or not.
C37_OnePersonaActive ==
    /\ active_persona # NoPersona
    /\ \E i \in 1..Len(personas) : personas[i] = active_persona

\* an activation with an unknown name has just been refused, after a
\* personas file whose default names no persona was loaded
C37_Witness ==
    /\ observed.call = "set_active_persona"
    /\ observed.name = "Nobody" /\ ~observed.returned
    /\ Len(personas) = 2
    /\ active_persona = personas[1]
    /\ active_persona.name = "Coach"
    /\ observed.before = active_persona

====
